---- MODULE Spec2Model ----
(***************************************************************************)
(* Model of the authentication / rate-limiting core of admin-lfs/backend.  *)
(*                                                                         *)
(*   - the OTP manager (utils/otp: storeOTP, verifyOTP,                    *)
(*     getRemainingAttempts), one step per redis command, since every      *)
(*     await is a point where another request may run;                     *)
(*   - the request pipeline (middleware/rateLimiter, fileUploadRateLimiter,*)
(*     middleware/auth, the caching parentChildValidator), one action per  *)
(*     middleware invocation.                                              *)
(***************************************************************************)
EXTENDS Integers, Sequences, FiniteSets, TLC

\* ------------------------------------------------------------------ bounds
NumProcs == 2       \* concurrently running calls of the OTP manager
MaxCalls == 5       \* calls of storeOTP / verifyOTP started in one behaviour

\* --------------------------------------------------------------- constants
OTP_TTL == 100      \* { ex: 100 } of both redis.set calls
MAX_ATTEMPTS == 3   \* attempts >= 3, 3 - attempts

Procs  == 1..NumProcs
Phones == {"9876543210"}
Codes  == {"123456", "654321"}
Ids    == 1..MaxCalls

Max(a, b) == IF a >= b THEN a ELSE b

VARIABLES
  otpKey,     \* redis  otp:<phone>          [live, val, ttl, id]
  attKey,     \* redis  otp_attempts:<phone> [live, val, ttl]
  proc,       \* the running calls: program counter, arguments, locals, result
  ncalls,     \* calls started so far
  issues,     \* history: number of otp:<phone> values written by storeOTP
  compared,   \* history: per issued value, candidates compared with it (line 44)
  succeeded,  \* history: per issued value, verifyOTP calls that returned success
  lastIssued, \* history: per phone, the last storeOTP call: [id, code, returned,
              \*          over: the live code it replaced, "" if none]
  expired     \* history: the issued values whose otp:<phone> key ran out of time

otpVars ==
  <<otpKey, attKey, proc, ncalls, issues, compared, succeeded, lastIssued, expired>>

VARIABLES
  now,             \* Date.now(), in ms
  redisUp,         \* whether the shared cache answers
  rateLimitCache,  \* the Map of middleware/rateLimiter.js: key -> [count, timestamp]
  rlRedis,         \* redis  rate_limit:<identifier>:<window> -> [n, exp]
  req,             \* the request being served and what the middleware attached to it
  res,             \* the response sent (status 0: none, next() was called)
  nreqs,           \* requests received so far
  admitted         \* history: per bucket and window, requests the rate limiter let pass

VARIABLES
  fileUploadCache, \* the Map of fileUploadRateLimiter: key -> [requests, files,
                   \*   totalSize, timestamp]
  fuRedis,         \* redis  rate_limit:<identifier>:<counter>:<window> -> [n, exp]
  users,           \* the users table: id -> [role, is_active, org_id, parent_id]
  dbUp,            \* whether the users table answers ({ error } otherwise)
  userCache,       \* redis  user_auth:<userId> -> the JSON text stored by redis.set
  pcCache,         \* redis  parent_children:<parentId>:<orgId> -> set of child ids
  redisClient,     \* what redis.get hands back for a stored JSON text:
                   \*   "text" (the text) or "parsed" (the value already parsed)
  authVariant,     \* the authenticateToken in force: "multiOrg" (auth.js 5-100)
                   \*   or "singleOrg" (auth.js 110-175)
  uploaded         \* history: per upload bucket and window, what the requests that
                   \*   fileUploadRateLimiter let pass add up to [requests, files, size]

rlVars == <<now, redisUp, rateLimitCache, rlRedis, req, res, nreqs, admitted>>
pipeVars ==
  <<fileUploadCache, fuRedis, users, dbUp, userCache, pcCache, redisClient, authVariant, uploaded>>
VARIABLES
  otpRate,         \* redis  otp_rate:<phone> -> [n, exp]  (exp 0: no such key)
  handler,         \* the route handlers of routes/auth.js that are running: program
                   \*   counter, the request body and the locals of each
  served,          \* the number of the last request a route handler took up
  account,         \* the users row of the faculty account: [failed_attempts,
                   \*   locked_until (ms, 0: null)]
  evaluated        \* history: wrong passwords compared since the account was last
                   \*   locked or reset

routeVars == <<otpRate, handler, served, account, evaluated>>
mwVars == <<rlVars, pipeVars>>
vars == <<otpVars, mwVars, routeVars>>

\* ------------------------------------------------------------- OTP manager
NoOtp == [live |-> FALSE, val |-> "", ttl |-> 0, id |-> 0]
NoAtt == [live |-> FALSE, val |-> 0, ttl |-> 0]
NoIssue == [id |-> 0, code |-> "", over |-> "", returned |-> FALSE]
NoResult == [done |-> FALSE, success |-> FALSE, error |-> ""]

Idle ==
  [pc |-> "idle", op |-> "", phone |-> "", inp |-> "",
   storedOTP |-> NoOtp, attempts |-> 0, result |-> NoResult,
   issue |-> 0,        \* history: the id of the value this storeOTP call wrote
   remBefore |-> 0]    \* history: getRemainingAttempts(phone) when the call began

Failure(msg) == [done |-> TRUE, success |-> FALSE, error |-> msg]
Success == [done |-> TRUE, success |-> TRUE, error |-> ""]

NotFoundMsg == "OTP expired or not found"
InvalidatedMsg == "OTP invalidated due to too many wrong attempts"

\* `Invalid OTP. ${remainingAttempts} attempt${remainingAttempts > 1 ? "s" : ""} remaining`
InvalidMsg(remainingAttempts) ==
  "Invalid OTP. " \o ToString(remainingAttempts) \o " attempt"
     \o (IF remainingAttempts > 1 THEN "s" ELSE "") \o " remaining"

\* (await redis.get(attemptsKey)) || 0, then parseInt
ReadAttempts(P) == IF attKey[P].live THEN attKey[P].val ELSE 0

\* getRemainingAttempts: Math.max(0, 3 - parseInt(attempts))
getRemainingAttempts(P) == Max(0, MAX_ATTEMPTS - ReadAttempts(P))

\* storeOTP, line 12: redis.set(otpKey, otp, { ex: 100 })
storeOTP_set_otp(p, P, c) ==
  /\ proc[p].pc = "idle"
  /\ ncalls < MaxCalls
  /\ ncalls' = ncalls + 1
  /\ issues' = issues + 1
  /\ otpKey' = [otpKey EXCEPT ![P] =
                  [live |-> TRUE, val |-> c, ttl |-> OTP_TTL, id |-> issues + 1]]
  /\ lastIssued' = [lastIssued EXCEPT ![P] =
                  [id |-> issues + 1, code |-> c, returned |-> FALSE,
                   over |-> IF otpKey[P].live THEN otpKey[P].val ELSE ""]]
  /\ proc' = [proc EXCEPT ![p] =
                  [Idle EXCEPT !.pc = "store_att", !.op = "storeOTP",
                               !.phone = P, !.inp = c, !.issue = issues + 1]]
  /\ UNCHANGED <<attKey, compared, succeeded, expired, mwVars>>

\* storeOTP, line 15: redis.set(attemptsKey, 0, { ex: 100 }), then return
storeOTP_set_attempts(p) ==
  /\ proc[p].pc = "store_att"
  /\ attKey' = [attKey EXCEPT ![proc[p].phone] =
                  [live |-> TRUE, val |-> 0, ttl |-> OTP_TTL]]
  /\ lastIssued' = [lastIssued EXCEPT ![proc[p].phone] =
                  IF @.id = proc[p].issue THEN [@ EXCEPT !.returned = TRUE] ELSE @]
  /\ proc' = [proc EXCEPT ![p].pc = "ret", ![p].result = Success]
  /\ UNCHANGED <<otpKey, ncalls, issues, compared, succeeded, expired, mwVars>>

\* verifyOTP, lines 23-26: redis.get(otpKey); if (!storedOTP) return not found
verifyOTP_get_otp(p, P, x) ==
  /\ proc[p].pc = "idle"
  /\ ncalls < MaxCalls
  /\ ncalls' = ncalls + 1
  /\ proc' = [proc EXCEPT ![p] =
       IF ~otpKey[P].live
         THEN [Idle EXCEPT !.pc = "ret", !.op = "verifyOTP", !.phone = P, !.inp = x,
                           !.remBefore = getRemainingAttempts(P),
                           !.result = Failure(NotFoundMsg)]
         ELSE [Idle EXCEPT !.pc = "get_att", !.op = "verifyOTP", !.phone = P, !.inp = x,
                           !.remBefore = getRemainingAttempts(P),
                           !.storedOTP = [otpKey[P] EXCEPT !.ttl = 0]]]
  /\ UNCHANGED <<otpKey, attKey, issues, compared, succeeded, lastIssued, expired, mwVars>>

\* verifyOTP, lines 29-44: redis.get(attemptsKey), the attempts >= 3 test and the
\* comparison String(storedOTP) !== String(inputOTP) (no await between them)
verifyOTP_get_attempts(p) ==
  /\ proc[p].pc = "get_att"
  /\ LET attempts == ReadAttempts(proc[p].phone)
         id == proc[p].storedOTP.id
     IN IF attempts >= MAX_ATTEMPTS
          THEN /\ proc' = [proc EXCEPT ![p].pc = "max_del_otp", ![p].attempts = attempts]
               /\ UNCHANGED compared
          ELSE /\ compared' = [compared EXCEPT ![id] = @ + 1]
               /\ IF proc[p].storedOTP.val # proc[p].inp
                    THEN proc' = [proc EXCEPT ![p].pc = "set_att",
                                              ![p].attempts = attempts + 1]
                    ELSE proc' = [proc EXCEPT ![p].pc = "ok_del_otp",
                                              ![p].attempts = attempts]
  /\ UNCHANGED <<otpKey, attKey, ncalls, issues, succeeded, lastIssued, expired, mwVars>>

\* a slip in line 50: the third wrong attempt is answered like the first two
verifyOTP_set_attempts_never_invalidates(p) ==
  /\ proc[p].pc = "set_att"
  /\ attKey' = [attKey EXCEPT ![proc[p].phone] =
                  [live |-> TRUE, val |-> proc[p].attempts, ttl |-> OTP_TTL]]
  /\ proc' = [proc EXCEPT ![p].pc = "ret",
                 ![p].result = Failure(InvalidMsg(MAX_ATTEMPTS - proc[p].attempts))]
  /\ UNCHANGED <<otpKey, ncalls, issues, compared, succeeded, lastIssued, expired, mwVars>>

\* verifyOTP, lines 47-65: redis.set(attemptsKey, attempts, { ex: 100 }), then
\* either go on to invalidate (remainingAttempts === 0) or return "Invalid OTP"
verifyOTP_set_attempts(p) ==
  /\ proc[p].pc = "set_att"
  /\ attKey' = [attKey EXCEPT ![proc[p].phone] =
                  [live |-> TRUE, val |-> proc[p].attempts, ttl |-> OTP_TTL]]
  /\ LET remainingAttempts == MAX_ATTEMPTS - proc[p].attempts
     IN proc' = [proc EXCEPT ![p] =
          IF remainingAttempts = 0
            THEN [@ EXCEPT !.pc = "last_del_otp"]
            ELSE [@ EXCEPT !.pc = "ret", !.result = Failure(InvalidMsg(remainingAttempts))]]
  /\ UNCHANGED <<otpKey, ncalls, issues, compared, succeeded, lastIssued, expired, mwVars>>

\* a slip in lines 35, 52 and 69: the otp key is left in place
verifyOTP_del_otp_skipped(p) ==
  /\ proc[p].pc \in {"max_del_otp", "last_del_otp", "ok_del_otp"}
  /\ proc' = [proc EXCEPT ![p].pc =
        CASE proc[p].pc = "max_del_otp"  -> "max_del_att"
          [] proc[p].pc = "last_del_otp" -> "last_del_att"
          [] OTHER                       -> "ok_del_att"]
  /\ UNCHANGED <<otpKey, attKey, ncalls, issues, compared, succeeded, lastIssued, expired, mwVars>>

\* verifyOTP, lines 35, 52 and 69: redis.del(otpKey)
verifyOTP_del_otp(p) ==
  /\ proc[p].pc \in {"max_del_otp", "last_del_otp", "ok_del_otp"}
  /\ otpKey' = [otpKey EXCEPT ![proc[p].phone] = NoOtp]
  /\ proc' = [proc EXCEPT ![p].pc =
        CASE proc[p].pc = "max_del_otp"  -> "max_del_att"
          [] proc[p].pc = "last_del_otp" -> "last_del_att"
          [] OTHER                       -> "ok_del_att"]
  /\ UNCHANGED <<attKey, ncalls, issues, compared, succeeded, lastIssued, expired, mwVars>>

\* verifyOTP, lines 36-40, 53-57 and 70-71: redis.del(attemptsKey), then return
verifyOTP_del_attempts(p) ==
  /\ proc[p].pc \in {"max_del_att", "last_del_att", "ok_del_att"}
  /\ attKey' = [attKey EXCEPT ![proc[p].phone] = NoAtt]
  /\ IF proc[p].pc = "ok_del_att"
       THEN /\ proc' = [proc EXCEPT ![p].pc = "ret", ![p].result = Success]
            /\ succeeded' = [succeeded EXCEPT ![proc[p].storedOTP.id] = @ + 1]
       ELSE /\ proc' = [proc EXCEPT ![p].pc = "ret",
                                    ![p].result = Failure(InvalidatedMsg)]
            /\ UNCHANGED succeeded
  /\ UNCHANGED <<otpKey, ncalls, issues, compared, lastIssued, expired, mwVars>>

\* the caller (routes/auth.js) has received the result
Return(p) ==
  /\ proc[p].pc = "ret"
  /\ proc' = [proc EXCEPT ![p] = Idle]
  /\ UNCHANGED <<otpKey, attKey, ncalls, issues, compared, succeeded, lastIssued, expired, mwVars>>

\* redis expiry: TickSec seconds pass; a key whose time to live runs out is gone
TickSec == OTP_TTL \div 2

Aged(k, none) == IF k.live /\ k.ttl > TickSec THEN [k EXCEPT !.ttl = @ - TickSec] ELSE none

ExpireTick ==
  /\ \E P \in Phones : otpKey[P].live \/ attKey[P].live
  /\ otpKey' = [P \in Phones |-> Aged(otpKey[P], NoOtp)]
  /\ attKey' = [P \in Phones |-> Aged(attKey[P], NoAtt)]
  /\ expired' = expired \cup
        {otpKey[P].id : P \in {Q \in Phones : otpKey[Q].live /\ ~otpKey'[Q].live}}
  /\ UNCHANGED <<proc, ncalls, issues, compared, succeeded, lastIssued, mwVars>>

OtpStep(p) ==
  \/ \E P \in Phones, c \in Codes : storeOTP_set_otp(p, P, c)
  \/ storeOTP_set_attempts(p)
  \/ \E P \in Phones, x \in Codes : verifyOTP_get_otp(p, P, x)
  \/ verifyOTP_get_attempts(p)
  \/ verifyOTP_set_attempts(p)
  \/ verifyOTP_del_otp(p)
  \/ verifyOTP_del_attempts(p)
  \/ Return(p)

\* ------------------------------------------------- requests and tokens
MaxReqs == 4        \* requests received in one behaviour
MaxTicks == 3      \* TickMs steps of the clock in one behaviour
MaxPipeReqs == 2   \* requests received in one behaviour of the whole pipeline
MaxUploads == 22   \* requests received in one behaviour of the upload route

JWT_SECRET == "secret"       \* process.env.JWT_SECRET

\* a decoded payload; "" stands for a field the payload does not have
NoPayload == [userId |-> "", orgId |-> ""]
NoToken == [kind |-> "none", secret |-> "", alg |-> "", payload |-> NoPayload]

\* generateToken: jwt.sign(payload, process.env.JWT_SECRET, { algorithm: "HS256" })
generateToken(payload) ==
  [kind |-> "jwt", secret |-> JWT_SECRET, alg |-> "HS256", payload |-> payload]

\* the second word of the Authorization header (undefined: NoToken)
Tokens ==
  { NoToken,
    generateToken([userId |-> "u1", orgId |-> "o1"]),
    generateToken([userId |-> "u1", orgId |-> ""]),
    generateToken([userId |-> "", orgId |-> "o1"]),
    [kind |-> "jwt", secret |-> "other", alg |-> "HS256",
       payload |-> [userId |-> "u1", orgId |-> "o1"]] }

\* a slip in verifyToken: the header algorithm is not restricted to HS256
verifyToken_any_alg(token) ==
  IF token.kind = "jwt" /\ token.secret = JWT_SECRET
    THEN [ok |-> TRUE, decoded |-> token.payload]
    ELSE [ok |-> FALSE, decoded |-> NoPayload]

\* verifyToken: jwt.verify(token, process.env.JWT_SECRET, { algorithms: ["HS256"] });
\* ok = FALSE stands for the exception jwt.verify throws
verifyToken(token) ==
  IF token.kind = "jwt" /\ token.alg = "HS256" /\ token.secret = JWT_SECRET
    THEN [ok |-> TRUE, decoded |-> token.payload]
    ELSE [ok |-> FALSE, decoded |-> NoPayload]

\* req.body.phoneNumber and req.body.username; "" stands for a missing (falsy) field
PhoneNumbers == {"", "9876543210"}
Usernames == {"", "teacher1"}
DeviceId == "10.0.0.1-a1b2c3d4e5f6"    \* `${req.ip}-${fingerprint}`

NoIdentifier == [type |-> "", id |-> ""]
NoUser == [id |-> "", role |-> "", is_active |-> FALSE]
NoChild == [childId |-> "", orgId |-> 0]
NoChildId == [type |-> "undefined", str |-> ""]
\* req.files: undefined (the limiter runs before multer has parsed the body) or the
\* list of the sizes of the files; sizes are counted in MiB (1024 * 1024 bytes)
NoFiles == [defined |-> FALSE, sizes |-> <<>>]

\* the three counters of an upload bucket
NoCounts == [requests |-> 0, files |-> 0, size |-> 0]

\* req: stage tells how far the request got (none, limited, authed, uploading,
\* validated, done: answered); redisFailed and dbQueried tell whether the last
\* middleware saw a redis command throw and whether it queried the users table;
\* seen: the counters fileUploadRateLimiter compared with the limits; validator: the
\* parentChildValidator that ran ("cached", "uncached"); handler: the route handler
\* that ran its queries, and target: the user id it scoped them to (stage handled)
NoReq ==
  [stage |-> "none", token |-> NoToken, phoneNumber |-> "", username |-> "",
   identifier |-> NoIdentifier, tokenVerified |-> "undefined",
   decodedToken |-> NoPayload, user |-> NoUser, files |-> NoFiles,
   childId |-> NoChildId, orgId |-> 0, validatedChild |-> NoChild,
   seen |-> NoCounts, redisFailed |-> FALSE, dbQueried |-> FALSE,
   validator |-> "", handler |-> "", target |-> ""]

\* res: status 0 means no response was sent and next() was called
Next0 ==
  [status |-> 0, error |-> "", type |-> "", limit |-> 0, retryAfter |-> 0, remaining |-> 0]
Passed(remaining, type, limit) ==
  [Next0 EXCEPT !.remaining = remaining, !.type = type, !.limit = limit]

\* --------------------------------------------------- middleware/rateLimiter
\* a slip in getIdentifier: the phone number is looked at before the token
getIdentifier_phone_first(token, phoneNumber, username) ==
  LET v == verifyToken(token)
      verified == token.kind # "none" /\ v.ok /\ v.decoded.userId # ""
      tokenVerified == IF verified THEN "true"
                       ELSE IF token.kind # "none" /\ ~v.ok THEN "false"
                       ELSE "undefined"
      identifier ==
        IF phoneNumber # "" THEN [type |-> "phone", id |-> phoneNumber]
        ELSE IF verified THEN [type |-> "user", id |-> v.decoded.userId]
        ELSE IF username # "" THEN [type |-> "username", id |-> username]
        ELSE [type |-> "device", id |-> DeviceId]
  IN [identifier |-> identifier, tokenVerified |-> tokenVerified,
      decodedToken |-> IF verified THEN v.decoded ELSE NoPayload]

\* a slip in getIdentifier: the token is decoded without being verified
getIdentifier_decode_only(token, phoneNumber, username) ==
  LET verified == token.kind = "jwt" /\ token.payload.userId # ""
      identifier ==
        IF verified THEN [type |-> "user", id |-> token.payload.userId]
        ELSE IF phoneNumber # "" THEN [type |-> "phone", id |-> phoneNumber]
        ELSE IF username # "" THEN [type |-> "username", id |-> username]
        ELSE [type |-> "device", id |-> DeviceId]
  IN [identifier |-> identifier,
      tokenVerified |-> IF verified THEN "true" ELSE "undefined",
      decodedToken |-> IF verified THEN token.payload ELSE NoPayload]

\* getIdentifier: the bucket of the request and what it leaves on req
\* (`${class}:${value}` is kept as the pair [type, id]; split(":")[0] is type)
getIdentifier(token, phoneNumber, username) ==
  LET v == verifyToken(token)
      verified == token.kind # "none" /\ v.ok /\ v.decoded.userId # ""
      tokenVerified == IF verified THEN "true"
                       ELSE IF token.kind # "none" /\ ~v.ok THEN "false"
                       ELSE "undefined"
      identifier ==
        IF verified THEN [type |-> "user", id |-> v.decoded.userId]
        ELSE IF phoneNumber # "" THEN [type |-> "phone", id |-> phoneNumber]
        ELSE IF username # "" THEN [type |-> "username", id |-> username]
        ELSE [type |-> "device", id |-> DeviceId]
  IN [identifier |-> identifier, tokenVerified |-> tokenVerified,
      decodedToken |-> IF verified THEN v.decoded ELSE NoPayload]

\* getLimits
getLimits(identifier) ==
  CASE identifier.type = "user"     -> [windowMs |-> 15 * 60 * 1000, max |-> 500]
    [] identifier.type = "phone"    -> [windowMs |-> 5 * 60 * 1000, max |-> 3]
    [] identifier.type = "username" -> [windowMs |-> 15 * 60 * 1000, max |-> 5]
    [] OTHER                        -> [windowMs |-> 15 * 60 * 1000, max |-> 50]

CACHE_TTL == 60000

\* Math.ceil(a / b) for positive integers
Ceil(a, b) == (a + b - 1) \div b

Put(f, k, v) == [x \in (DOMAIN f) \cup {k} |-> IF x = k THEN v ELSE f[x]]
Without(f, K) == [x \in (DOMAIN f) \ K |-> f[x]]

TooMany(identifier, limits) ==
  [status |-> 429,
   error |-> "Too many " \o identifier.type \o " requests. Please try again later.",
   type |-> identifier.type, limit |-> limits.max,
   retryAfter |-> Ceil(limits.windowMs, 1000), remaining |-> 0]

\* lines 122-129: if (rateLimitCache.size > 1000) drop the entries older than CACHE_TTL
Swept(cache, size) ==
  IF Cardinality(DOMAIN cache) > size
    THEN Without(cache, {k \in DOMAIN cache : cache[k].timestamp < now - CACHE_TTL})
    ELSE cache

\* the redis commands of one request that throw, of the n it may send: none while
\* redis is up; otherwise the commands from some point on (redis went away), or up
\* to some point (redis came back)
Failing(n) ==
  IF redisUp THEN {{}} ELSE {k..n : k \in 1..n} \cup {1..k : k \in 1..n}

\* rateLimiter, lines 72-161, for a request with the given bearer token and body
rateLimiter(token, phoneNumber, username, failing) ==
  /\ nreqs' = nreqs + 1
  /\ LET got == getIdentifier(token, phoneNumber, username)
         identifier == got.identifier
         limits == getLimits(identifier)
         window == now \div limits.windowMs
         key == <<identifier, window>>
         hit == key \in DOMAIN rateLimitCache
                  /\ now - rateLimitCache[key].timestamp < CACHE_TTL
         incrFails == 1 \in failing
         expireFails == 2 \in failing
         current == IF key \in DOMAIN rlRedis THEN rlRedis[key].n + 1 ELSE 1
         request == [NoReq EXCEPT !.token = token, !.phoneNumber = phoneNumber,
                       !.username = username, !.identifier = identifier,
                       !.tokenVerified = got.tokenVerified,
                       !.decodedToken = got.decodedToken]
         pass(r) == /\ res' = r
                    /\ req' = [request EXCEPT !.stage = "limited",
                                 !.redisFailed = ~hit /\ (incrFails \/ (current = 1 /\ expireFails))]
                    /\ admitted' = IF key \in DOMAIN admitted
                                     THEN [admitted EXCEPT ![key] = @ + 1]
                                     ELSE Put(admitted, key, 1)
         reject(r) == /\ res' = r
                      /\ req' = [request EXCEPT !.stage = "done"]
                      /\ UNCHANGED admitted
     IN IF hit
          THEN \* lines 84-105: answered from the in-process cache
               IF rateLimitCache[key].count >= limits.max
                 THEN /\ reject(TooMany(identifier, limits))
                      /\ UNCHANGED <<rateLimitCache, rlRedis>>
                 ELSE /\ rateLimitCache' =
                           [rateLimitCache EXCEPT ![key].count = @ + 1]
                      /\ pass(Passed(Max(0, limits.max - (rateLimitCache[key].count + 1)),
                                     identifier.type, limits.max))
                      /\ UNCHANGED rlRedis
          ELSE IF incrFails
            THEN \* line 108 throws: catch, next()
                 /\ pass(Next0)
                 /\ UNCHANGED <<rateLimitCache, rlRedis>>
          ELSE IF current = 1 /\ expireFails
            THEN \* line 112 throws after the increment: catch, next()
                 /\ rlRedis' = Put(rlRedis, key, [n |-> current, exp |-> 0])
                 /\ pass(Next0)
                 /\ UNCHANGED rateLimitCache
          ELSE \* lines 108-156
               /\ rlRedis' = Put(rlRedis, key,
                     [n |-> current,
                      exp |-> IF current = 1
                                THEN now + 1000 * Ceil(limits.windowMs, 1000)
                                ELSE rlRedis[key].exp])
               /\ rateLimitCache' =
                     Swept(Put(rateLimitCache, key, [count |-> current, timestamp |-> now]),
                           1000)
               /\ IF current > limits.max
                    THEN reject(TooMany(identifier, limits))
                    ELSE pass(Passed(Max(0, limits.max - current),
                                     identifier.type, limits.max))
  /\ UNCHANGED <<now, redisUp, pipeVars, otpVars, routeVars>>

\* lines 164-179: setInterval, drops the entries older than CACHE_TTL
cleanRateLimitCache ==
  /\ \E k \in DOMAIN rateLimitCache : rateLimitCache[k].timestamp < now - CACHE_TTL
  /\ rateLimitCache' = Swept(rateLimitCache, 0)
  /\ UNCHANGED <<now, redisUp, rlRedis, req, res, nreqs, admitted, pipeVars, otpVars, routeVars>>

\* time passes; redis drops the keys whose expiry has come
TickMs == CACHE_TTL \div 2

Tick ==
  /\ now < MaxTicks * TickMs
  /\ now' = now + TickMs
  /\ rlRedis' = Without(rlRedis,
        {k \in DOMAIN rlRedis : rlRedis[k].exp # 0 /\ rlRedis[k].exp <= now + TickMs})
  /\ fuRedis' = Without(fuRedis,
        {k \in DOMAIN fuRedis : fuRedis[k].exp # 0 /\ fuRedis[k].exp <= now + TickMs})
  /\ UNCHANGED <<redisUp, rateLimitCache, req, res, nreqs, admitted>>
  /\ UNCHANGED <<fileUploadCache, users, dbUp, userCache, pcCache, redisClient, authVariant, uploaded>>
  /\ UNCHANGED <<otpVars, routeVars>>

\* the shared cache becomes unreachable, or reachable again
RedisOutage ==
  /\ redisUp' = ~redisUp
  /\ UNCHANGED <<now, rateLimitCache, rlRedis, req, res, nreqs, admitted, pipeVars, otpVars, routeVars>>

\* ------------------------------------------------------- the users table
\* db.sql: users(id UUID PRIMARY KEY, org_id INTEGER NOT NULL, parent_id UUID,
\* role, is_active BOOLEAN); "" stands for a NULL parent_id
UserIds == {"u1", "cA", "cB", "cC"}
UsersRows ==
  [u \in UserIds |->
     CASE u = "u1" -> [role |-> "parent", is_active |-> TRUE, org_id |-> 1, parent_id |-> ""]
       [] u = "cA" -> [role |-> "student", is_active |-> TRUE, org_id |-> 1, parent_id |-> "u1"]
       [] u = "cB" -> [role |-> "student", is_active |-> TRUE, org_id |-> 2, parent_id |-> "u1"]
       [] OTHER    -> [role |-> "student", is_active |-> TRUE, org_id |-> 1, parent_id |-> ""]]

\* the is_active column of a row is changed (by the administration, outside this code)
setActive(u, b) ==
  /\ users[u].is_active # b
  /\ users' = [users EXCEPT ![u].is_active = b]
  /\ UNCHANGED <<fileUploadCache, fuRedis, dbUp, userCache, pcCache, redisClient, authVariant, uploaded>>
  /\ UNCHANGED <<rlVars, otpVars, routeVars>>

\* an administrator links a student to a parent (users.parent_id)
linkChild(u, parentId) ==
  /\ users[u].role = "student"
  /\ users[u].parent_id # parentId
  /\ users' = [users EXCEPT ![u].parent_id = parentId]
  /\ UNCHANGED <<fileUploadCache, fuRedis, dbUp, userCache, pcCache, redisClient, authVariant, uploaded>>
  /\ UNCHANGED <<rlVars, otpVars, routeVars>>

\* the users table becomes unreachable, or reachable again
DbOutage ==
  /\ dbUp' = ~dbUp
  /\ UNCHANGED <<fileUploadCache, fuRedis, users, userCache, pcCache, redisClient, authVariant, uploaded>>
  /\ UNCHANGED <<rlVars, otpVars, routeVars>>

\* ------------------------------------------------------- JSON in the cache
\* JSON.stringify(v): a text; JSON.parse(x) gives the value back when x is a text
\* and throws (ok = FALSE) when x is not a text
JSON_stringify(v) == [text |-> TRUE, value |-> v]
JSON_parse(x) == [ok |-> x.text, value |-> x.value]
\* redis.get(key) of a stored text, as the client in use hands it back
redis_get(stored) ==
  IF redisClient = "text" THEN stored ELSE [text |-> FALSE, value |-> stored.value]

\* !obj.is_active: the field is missing or false
NotActive(obj) == ~("is_active" \in DOMAIN obj /\ obj.is_active)

\* ----------------------------------------------------------- middleware/auth
Unauthorized(msg) == [Next0 EXCEPT !.status = 401, !.error = msg]

\* what authenticateToken leaves on req and res
Authenticated(user, threw, queried) ==
  /\ req' = [req EXCEPT !.stage = "authed", !.user = user,
                        !.redisFailed = threw, !.dbQueried = queried]
  /\ res' = Next0
NotAuthenticated(msg, threw, queried) ==
  /\ req' = [req EXCEPT !.stage = "done", !.redisFailed = threw, !.dbQueried = queried]
  /\ res' = Unauthorized(msg)

\* a slip in authenticateToken: the payload of the bearer token is taken as it is,
\* without verifyToken
Decoded_unverified ==
  IF req.token = NoToken THEN [status |-> "missing", decoded |-> NoPayload]
  ELSE [status |-> "ok", decoded |-> req.token.payload]

\* lines 10-27 (115-132): the payload, reused from the rate limiter or verified here
Decoded ==
  LET reuse == req.tokenVerified = "true" /\ req.decodedToken # NoPayload
      v == verifyToken(req.token)
  IN IF reuse THEN [status |-> "ok", decoded |-> req.decodedToken]
     ELSE IF req.token = NoToken THEN [status |-> "missing", decoded |-> NoPayload]
     ELSE IF ~v.ok THEN [status |-> "throws", decoded |-> NoPayload]
     ELSE [status |-> "ok", decoded |-> v.decoded]

\* a slip in authenticateToken: a failing redis.get is not caught at line 48 and
\* reaches the outer catch
authenticateToken_get_uncaught(failing) ==
  /\ authVariant = "multiOrg"
  /\ req.stage = "limited"
  /\ 1 \in failing
  /\ NotAuthenticated("Invalid token", TRUE, FALSE)
  /\ UNCHANGED <<now, redisUp, rateLimitCache, rlRedis, nreqs, admitted>>
  /\ UNCHANGED <<pipeVars, otpVars, routeVars>>

\* authenticateToken, lines 5-100 (the variant that collects the organizations)
authenticateToken(failing) ==
  /\ authVariant = "multiOrg"
  /\ req.stage = "limited"
  /\ LET d == Decoded
         decoded == d.decoded
         userCacheKey == decoded.userId
         getFails == 1 \in failing
         setFails == 2 \in failing
         found == ~getFails /\ userCacheKey \in DOMAIN userCache
         parsed == JSON_parse(redis_get(userCache[userCacheKey]))
         rows == IF dbUp
                   THEN {u \in DOMAIN users : u = decoded.userId /\ users[u].is_active}
                   ELSE {}
     IN IF d.status = "missing"
          THEN NotAuthenticated("Access token required", FALSE, FALSE) /\ UNCHANGED userCache
        ELSE IF d.status = "throws" \/ decoded.orgId = ""
          THEN NotAuthenticated("Invalid token", FALSE, FALSE) /\ UNCHANGED userCache
        ELSE IF found /\ parsed.ok
          THEN \* lines 39-47
               /\ IF NotActive(parsed.value)
                    THEN NotAuthenticated("Account deactivated", FALSE, FALSE)
                    ELSE Authenticated(parsed.value.user, FALSE, FALSE)
               /\ UNCHANGED userCache
        ELSE IF rows = {}
          THEN \* line 64
               /\ NotAuthenticated("Invalid or expired token", getFails, TRUE)
               /\ UNCHANGED userCache
        ELSE LET u == CHOOSE x \in rows : TRUE
                 userData ==
                   [user |-> [id |-> u, role |-> users[u].role,
                              is_active |-> users[u].is_active],
                    orgs |-> <<[org_id |-> users[u].org_id, role |-> users[u].role]>>]
             IN \* lines 69-95
                /\ userCache' = IF setFails THEN userCache
                                ELSE Put(userCache, userCacheKey, JSON_stringify(userData))
                /\ Authenticated(userData.user, getFails \/ setFails, TRUE)
  /\ UNCHANGED <<now, redisUp, rateLimitCache, rlRedis, nreqs, admitted>>
  /\ UNCHANGED <<fileUploadCache, fuRedis, users, dbUp, pcCache, redisClient, authVariant, uploaded>>
  /\ UNCHANGED <<otpVars, routeVars>>

\* authenticateToken, lines 110-175 (the variant with one row per user)
authenticateToken_single(failing) ==
  /\ authVariant = "singleOrg"
  /\ req.stage = "limited"
  /\ LET d == Decoded
         decoded == d.decoded
         userCacheKey == decoded.userId
         getFails == 1 \in failing
         setFails == 2 \in failing
         found == ~getFails /\ userCacheKey \in DOMAIN userCache
         parsed == JSON_parse(redis_get(userCache[userCacheKey]))
         \* .single(): an error unless exactly one row has the id
         row == dbUp /\ decoded.userId \in DOMAIN users
     IN IF d.status = "missing"
          THEN NotAuthenticated("Access token required", FALSE, FALSE) /\ UNCHANGED userCache
        ELSE IF d.status = "throws"
          THEN NotAuthenticated("Invalid token", FALSE, FALSE) /\ UNCHANGED userCache
        ELSE IF found /\ parsed.ok
          THEN \* lines 139-146
               /\ IF NotActive(parsed.value)
                    THEN NotAuthenticated("Account deactivated", FALSE, FALSE)
                    ELSE Authenticated(parsed.value, FALSE, FALSE)
               /\ UNCHANGED userCache
        ELSE IF ~row \/ ~users[decoded.userId].is_active
          THEN \* line 158
               /\ NotAuthenticated("Invalid or expired token", getFails, TRUE)
               /\ UNCHANGED userCache
        ELSE LET user == [id |-> decoded.userId, role |-> users[decoded.userId].role,
                          is_active |-> users[decoded.userId].is_active]
             IN \* lines 163-170
                /\ userCache' = IF setFails THEN userCache
                                ELSE Put(userCache, userCacheKey, JSON_stringify(user))
                /\ Authenticated(user, getFails \/ setFails, TRUE)
  /\ UNCHANGED <<now, redisUp, rateLimitCache, rlRedis, nreqs, admitted>>
  /\ UNCHANGED <<fileUploadCache, fuRedis, users, dbUp, pcCache, redisClient, authVariant, uploaded>>
  /\ UNCHANGED <<otpVars, routeVars>>

\* ------------------------------------------------- fileUploadRateLimiter
FileLists == {NoFiles, [defined |-> TRUE, sizes |-> <<300>>],
              [defined |-> TRUE, sizes |-> <<1, 1>>]}

RECURSIVE Sum(_)
Sum(s) == IF s = <<>> THEN 0 ELSE Head(s) + Sum(Tail(s))

\* getFileUploadIdentifier, lines 187-216
getFileUploadIdentifier(token) ==
  LET v == verifyToken(token)
  IN IF token # NoToken /\ v.ok /\ v.decoded.userId # ""
       THEN [type |-> "file_upload", id |-> v.decoded.userId]
       ELSE [type |-> "file_upload_ip", id |-> DeviceId]

\* getFileUploadLimits, lines 218-237
getFileUploadLimits(identifier) ==
  IF identifier.type = "file_upload"
    THEN [windowMs |-> 60 * 60 * 1000, max |-> 20, maxFiles |-> 100, maxTotalSize |-> 500]
    ELSE [windowMs |-> 60 * 60 * 1000, max |-> 5, maxFiles |-> 20, maxTotalSize |-> 50]

UploadRejected(type, error, limit, limits) ==
  [status |-> 429, error |-> error, type |-> type, limit |-> limit,
   retryAfter |-> Ceil(limits.windowMs, 1000), remaining |-> 0]
TooManyUploads(limits) ==
  UploadRejected("file_upload_requests",
                 "Too many file upload requests. Please try again later.",
                 limits.max, limits)
TooManyFiles(limits) ==
  UploadRejected("file_upload_files",
                 "File limit exceeded. You can upload " \o ToString(limits.maxFiles)
                    \o " files per hour.",
                 limits.maxFiles, limits)
TooMuchSize(limits, total) ==
  UploadRejected("file_upload_size",
                 "Upload size limit exceeded. You can upload "
                    \o ToString(limits.maxTotalSize) \o "MB per hour. Current: "
                    \o ToString(total) \o "MB",
                 limits.maxTotalSize, limits)

\* redis.incrby(key, by), and the key after it
Incr(key, by) == IF key \in DOMAIN fuRedis THEN fuRedis[key].n + by ELSE by

\* fileUploadRateLimiter, lines 243-420; failing: the batches of redis commands that
\* throw (none of a failing batch takes effect), 1 the increments of line 329 and
\* 2 the expires of line 338
fileUploadRateLimiter(files, failing) ==
  /\ req.stage = "authed"
  /\ LET identifier == getFileUploadIdentifier(req.token)
         limits == getFileUploadLimits(identifier)
         window == now \div limits.windowMs
         requestKey == <<identifier, "requests", window>>
         filesKey == <<identifier, "files", window>>
         sizeKey == <<identifier, "size", window>>
         cacheKey == <<identifier, window>>
         currentFiles == IF files.defined THEN Len(files.sizes) ELSE 0
         currentSize == IF files.defined THEN Sum(files.sizes) ELSE 0
         hit == cacheKey \in DOMAIN fileUploadCache
                  /\ now - fileUploadCache[cacheKey].timestamp < CACHE_TTL
         cached == fileUploadCache[cacheKey]
         currentRequests == Incr(requestKey, 1)
         currentFilesCount == Incr(filesKey, currentFiles)
         currentTotalSize == Incr(sizeKey, currentSize)
         incrFails == 1 \in failing
         expires == ~incrFails /\ currentRequests = 1
         expireFails == expires /\ 2 \in failing
         expiry == now + 1000 * Ceil(limits.windowMs, 1000)
         \* the key after its increment and its expire (if any)
         after(key, n) ==
           [n |-> n,
            exp |-> IF expires /\ ~expireFails THEN expiry
                    ELSE IF key \in DOMAIN fuRedis THEN fuRedis[key].exp
                    ELSE 0]
         stored == IF incrFails THEN fuRedis
                   ELSE Put(Put(Put(fuRedis, requestKey, after(requestKey, currentRequests)),
                                filesKey, after(filesKey, currentFilesCount)),
                            sizeKey, after(sizeKey, currentTotalSize))
         seen == IF hit
                   THEN [requests |-> cached.requests + 1,
                         files |-> cached.files + currentFiles,
                         size |-> cached.totalSize + currentSize]
                 ELSE IF incrFails \/ expireFails THEN NoCounts
                 ELSE [requests |-> currentRequests, files |-> currentFilesCount,
                       size |-> currentTotalSize]
         before == IF cacheKey \in DOMAIN uploaded THEN uploaded[cacheKey] ELSE NoCounts
         pass(r, threw) == /\ res' = r
                           /\ req' = [req EXCEPT !.stage = "uploading", !.files = files,
                                                 !.seen = seen, !.redisFailed = threw]
                           /\ uploaded' =
                                Put(uploaded, cacheKey,
                                    [requests |-> before.requests + 1,
                                     files |-> before.files + currentFiles,
                                     size |-> before.size + currentSize])
         reject(r) == /\ res' = r
                      /\ req' = [req EXCEPT !.stage = "done", !.files = files,
                                            !.seen = seen, !.redisFailed = FALSE]
                      /\ UNCHANGED uploaded
     IN IF hit
          THEN \* lines 266-325
               /\ UNCHANGED fuRedis
               /\ IF cached.requests >= limits.max
                    THEN reject(TooManyUploads(limits)) /\ UNCHANGED fileUploadCache
                  ELSE IF cached.files + currentFiles > limits.maxFiles
                    THEN reject(TooManyFiles(limits)) /\ UNCHANGED fileUploadCache
                  ELSE IF cached.totalSize + currentSize > limits.maxTotalSize
                    THEN /\ reject(TooMuchSize(limits, cached.totalSize + currentSize))
                         /\ UNCHANGED fileUploadCache
                  ELSE /\ fileUploadCache' =
                            [fileUploadCache EXCEPT
                               ![cacheKey].requests = @ + 1,
                               ![cacheKey].files = @ + currentFiles,
                               ![cacheKey].totalSize = @ + currentSize]
                       /\ pass(Passed(Max(0, limits.max - (cached.requests + 1)),
                                      "", limits.max), FALSE)
        ELSE IF incrFails \/ expireFails
          THEN \* lines 329, 338 throw: catch, next()
               /\ fuRedis' = stored
               /\ pass(Next0, TRUE)
               /\ UNCHANGED fileUploadCache
        ELSE \* lines 328-415
             /\ fuRedis' = stored
             /\ fileUploadCache' =
                  Swept(Put(fileUploadCache, cacheKey,
                            [requests |-> currentRequests, files |-> currentFilesCount,
                             totalSize |-> currentTotalSize, timestamp |-> now]),
                        500)
             /\ IF currentRequests > limits.max
                  THEN reject(TooManyUploads(limits))
                ELSE IF currentFilesCount > limits.maxFiles
                  THEN reject(TooManyFiles(limits))
                ELSE IF currentTotalSize > limits.maxTotalSize
                  THEN reject(TooMuchSize(limits, currentTotalSize))
                ELSE pass(Passed(Max(0, limits.max - currentRequests), "", limits.max),
                          FALSE)
  /\ UNCHANGED <<now, redisUp, rateLimitCache, rlRedis, nreqs, admitted>>
  /\ UNCHANGED <<users, dbUp, userCache, pcCache, redisClient, authVariant>>
  /\ UNCHANGED <<otpVars, routeVars>>

\* upload.array("files", 10) of part_006 line 158, with limits fileSize 5MB and
\* files 10 (lines 37-40): multer parses the body after the limiter has run; a file
\* over 5 MiB or an 11th file is an error passed to next(err) (express answers 500)
upload_array ==
  /\ req.stage = "uploading"
  /\ IF Len(req.files.sizes) > 10 \/ \E i \in DOMAIN req.files.sizes : req.files.sizes[i] > 5
       THEN /\ req' = [req EXCEPT !.stage = "done"]
            /\ res' = [Next0 EXCEPT !.status = 500]
       ELSE /\ req' = [req EXCEPT !.stage = "parsed", !.files.defined = TRUE]
            /\ res' = Next0
  /\ UNCHANGED <<now, redisUp, rateLimitCache, rlRedis, nreqs, admitted>>
  /\ UNCHANGED <<pipeVars, otpVars, routeVars>>

\* lines 423-438: setInterval, drops the entries older than CACHE_TTL
cleanFileUploadCache ==
  /\ \E k \in DOMAIN fileUploadCache : fileUploadCache[k].timestamp < now - CACHE_TTL
  /\ fileUploadCache' = Swept(fileUploadCache, 0)
  /\ UNCHANGED <<fuRedis, users, dbUp, userCache, pcCache, redisClient, authVariant, uploaded>>
  /\ UNCHANGED <<rlVars, otpVars, routeVars>>

\* ------------------------------------- parentChildValidator (with the cache)
\* req.body.childId: its typeof and, for a string, the string
ChildIds ==
  {[type |-> "undefined", str |-> ""], [type |-> "number", str |-> "42"],
   [type |-> "string", str |-> ""], [type |-> "string", str |-> "not-a-uuid"],
   [type |-> "string", str |-> "cA"], [type |-> "string", str |-> "cB"],
   [type |-> "string", str |-> "cC"], [type |-> "string", str |-> "cX"]}
\* the strings the uuid expression of line 815 accepts
Uuids == UserIds \cup {"cX"}

\* req.user.org_id: the org_id of the user's row where the authentication in force
\* provides it, 0 (undefined) where it does not (middleware/auth.js selects no org_id
\* into req.user)
OrgIdsOf(user) == {0} \cup {users[u].org_id : u \in {x \in DOMAIN users : x = user.id}}

Answer(status, msg) == [Next0 EXCEPT !.status = status, !.error = msg]

\* parentChildValidator, part_013 lines 804-872; failing: 1 the smembers of line 826,
\* 2 the sadd of line 853
parentChildValidator(orgId, child, failing) ==
  /\ req.stage = "authed"
  /\ orgId \in OrgIdsOf(req.user)
  /\ LET childId == child.str
         parentId == req.user.id
         cacheKey == <<parentId, orgId>>
         smembersFails == 1 \in failing
         saddFails == 2 \in failing
         cachedIds == IF ~smembersFails /\ cacheKey \in DOMAIN pcCache
                        THEN pcCache[cacheKey] ELSE {}
         \* org_id is an INTEGER column: the filter org_id = undefined is an error
         dbError == ~dbUp \/ orgId = 0
         children == {u \in DOMAIN users : /\ users[u].parent_id = parentId
                                           /\ users[u].org_id = orgId
                                           /\ users[u].is_active}
         childrenIds == IF cachedIds # {} THEN cachedIds ELSE children
         sadd == cachedIds = {} /\ ~dbError /\ children # {}
         done(r, threw, queried) ==
           /\ res' = r
           /\ req' = [req EXCEPT !.stage = "done", !.childId = child, !.orgId = orgId,
                                 !.validator = "cached",
                                 !.redisFailed = threw, !.dbQueried = queried]
     IN IF child.type # "string" \/ childId = ""
          THEN /\ done(Answer(400, "Valid child ID is required"), FALSE, FALSE)
               /\ UNCHANGED pcCache
        ELSE IF childId \notin Uuids
          THEN /\ done(Answer(400, "Invalid child ID format"), FALSE, FALSE)
               /\ UNCHANGED pcCache
        ELSE IF cachedIds = {} /\ dbError
          THEN \* lines 841-846
               /\ done(Answer(500, "Service temporarily unavailable"), smembersFails, TRUE)
               /\ UNCHANGED pcCache
        ELSE /\ pcCache' = IF sadd /\ ~saddFails
                             THEN Put(pcCache, cacheKey,
                                      (IF cacheKey \in DOMAIN pcCache
                                         THEN pcCache[cacheKey] ELSE {}) \cup children)
                             ELSE pcCache
             /\ IF childId \notin childrenIds
                  THEN done(Answer(403, "Access denied"),
                            smembersFails \/ (sadd /\ saddFails), cachedIds = {})
                  ELSE /\ res' = Next0
                       /\ req' = [req EXCEPT !.stage = "validated", !.childId = child,
                                    !.orgId = orgId, !.validator = "cached",
                                    !.validatedChild = [childId |-> childId, orgId |-> orgId],
                                    !.redisFailed = smembersFails \/ (sadd /\ saddFails),
                                    !.dbQueried = cachedIds = {}]
  /\ UNCHANGED <<now, redisUp, rateLimitCache, rlRedis, nreqs, admitted>>
  /\ UNCHANGED <<fileUploadCache, fuRedis, users, dbUp, userCache, redisClient, authVariant, uploaded>>
  /\ UNCHANGED <<otpVars, routeVars>>

\* ------------------- parentChildValidator (middleware/parentChildValidator.js)
\* lines 6-37: what the validator answers for req.user and the childId it reads;
\* the answers are { success: false, message }, the message kept in res.error.
\* users.id is a UUID column: a childId that is not one makes the query an error
validate(user, child) ==
  LET childId == child.str
      childError == ~dbUp \/ child.type # "string" \/ childId \notin Uuids
      rows == {u \in DOMAIN users : u = childId /\ users[u].parent_id = user.id}
  IN IF child.type = "undefined" \/ childId = ""
       THEN [res |-> Answer(400, "Child ID is required"), queried |-> FALSE,
             validatedChild |-> NoChild]
     ELSE IF childError \/ rows = {}
       THEN [res |-> Answer(403, "Invalid child ID or access denied"), queried |-> TRUE,
             validatedChild |-> NoChild]
     ELSE [res |-> Next0, queried |-> TRUE,
           validatedChild |-> [childId |-> childId, orgId |-> users[childId].org_id]]

\* parentChildValidator, lines 3-45, as a middleware of a route (next is the handler)
parentChildValidator_uncached(child) ==
  /\ req.stage = "authed"
  /\ LET v == validate(req.user, child)
     IN /\ res' = v.res
        /\ req' = [req EXCEPT !.stage = IF v.res.status = 0 THEN "validated" ELSE "done",
                              !.childId = child, !.validator = "uncached",
                              !.validatedChild = v.validatedChild,
                              !.redisFailed = FALSE, !.dbQueried = v.queried]
  /\ UNCHANGED <<now, redisUp, rateLimitCache, rlRedis, nreqs, admitted>>
  /\ UNCHANGED <<pipeVars, otpVars, routeVars>>

\* ------------------------------------------- routes that serve a parent
\* GET /:groupId, part_006 lines 59-98: after parentChildValidator called next(),
\* the handler scopes its queries to req.validatedChild.childId
getMessages ==
  /\ req.stage = "validated"
  /\ req.validator = "uncached"
  /\ req.user.role = "parent"
  /\ req' = [req EXCEPT !.stage = "handled", !.handler = "getMessages",
                        !.target = req.validatedChild.childId]
  /\ UNCHANGED <<now, redisUp, rateLimitCache, rlRedis, res, nreqs, admitted>>
  /\ UNCHANGED <<pipeVars, otpVars, routeVars>>

\* GET /:groupId/exams/:examId/grades, grades.js lines 8-37: for a parent the
\* handler scopes its queries to req.query.childId
getGrades(childId) ==
  /\ req.stage = "authed"
  /\ req.user.role = "parent"
  /\ IF childId = ""
       THEN /\ req' = [req EXCEPT !.stage = "done",
                                  !.childId = [type |-> "string", str |-> childId]]
            /\ res' = Answer(400, "Child ID is required for parent users")
       ELSE /\ req' = [req EXCEPT !.stage = "handled", !.handler = "getGrades",
                                  !.childId = [type |-> "string", str |-> childId],
                                  !.target = childId]
            /\ UNCHANGED res
  /\ UNCHANGED <<now, redisUp, rateLimitCache, rlRedis, nreqs, admitted>>
  /\ UNCHANGED <<pipeVars, otpVars, routeVars>>

\* GET /:groupId/files/:messageId, part_007 lines 310-337: with a childId in the
\* query the handler awaits parentChildValidator(req, res, () => {}) and goes on
\* whatever it answered, scoping its queries to req.user.id
getFile(childId) ==
  /\ req.stage = "authed"
  /\ LET child == [type |-> "string", str |-> childId]
         v == validate(req.user, child)
     IN IF childId = ""
          THEN /\ req' = [req EXCEPT !.stage = "handled", !.handler = "getFile",
                                     !.childId = child, !.target = req.user.id]
               /\ UNCHANGED res
          ELSE /\ req' = [req EXCEPT !.stage = "handled", !.handler = "getFile",
                                     !.childId = child, !.validator = "uncached",
                                     !.validatedChild = v.validatedChild,
                                     !.dbQueried = v.queried, !.target = req.user.id]
               /\ res' = v.res
  /\ UNCHANGED <<now, redisUp, rateLimitCache, rlRedis, nreqs, admitted>>
  /\ UNCHANGED <<pipeVars, otpVars, routeVars>>

PipeInit ==
  /\ fileUploadCache = <<>>
  /\ fuRedis = <<>>
  /\ users = UsersRows
  /\ dbUp = TRUE
  /\ userCache = <<>>
  /\ pcCache = <<>>
  /\ uploaded = <<>>

MwInit ==
  /\ now = 0
  /\ redisUp = TRUE
  /\ rateLimitCache = <<>>
  /\ rlRedis = <<>>
  /\ req = NoReq
  /\ res = Next0
  /\ nreqs = 0
  /\ admitted = <<>>

OtpInit ==
  /\ otpKey = [P \in Phones |-> NoOtp]
  /\ attKey = [P \in Phones |-> NoAtt]
  /\ proc = [p \in Procs |-> Idle]
  /\ ncalls = 0
  /\ issues = 0
  /\ compared = [i \in Ids |-> 0]
  /\ succeeded = [i \in Ids |-> 0]
  /\ lastIssued = [P \in Phones |-> NoIssue]
  /\ expired = {}

\* no route handler is running; the faculty account has no failed attempt
NoHandler ==
  [pc |-> "idle", route |-> "", phoneNumber |-> "", otp |-> "", password |-> "",
   recentRequests |-> 0, user |-> [failed_attempts |-> 0, locked_until |-> 0],
   res |-> [status |-> 0, error |-> ""]]

RouteInit ==
  /\ otpRate = [P \in Phones |-> [n |-> 0, exp |-> 0]]
  /\ handler = [p \in Procs |-> NoHandler]
  /\ served = 0
  /\ account = [failed_attempts |-> 0, locked_until |-> 0]
  /\ evaluated = 0

\* ------------------------------------------- routes/auth.js: the OTP routes
\* the user whose phone_number is P, for .eq("phone_number", P).single()
UserOfPhone(P) == IF P = "9876543210" THEN "u1" ELSE ""

Respond(status, msg) == [status |-> status, error |-> msg]
NotRegisteredMsg ==
  "Phone number not registered. Please contact admin to create your account."

\* what the lookup of the user by phone number answers (lines 54-78, 189-206;
\* /resend-otp does not look at the role), status 0 if the handler goes on
PhoneUserCheck(P, withRole) ==
  LET u == UserOfPhone(P)
  IN IF ~dbUp \/ u = "" THEN Respond(404, NotRegisteredMsg)
     ELSE IF ~users[u].is_active
       THEN Respond(403, "Account is deactivated. Please contact admin.")
     ELSE IF withRole /\ users[u].role \notin {"student", "parent"}
       THEN Respond(403, "This phone number is not authorized for student/parent login.")
     ELSE Respond(0, "")

\* a handler takes up the request the rate limiter let pass
TakesRequest(p) ==
  /\ handler[p].pc = "idle"
  /\ proc[p].pc = "idle"
  /\ req.stage = "limited"
  /\ served < nreqs
  /\ served' = nreqs

\* the value of otp_rate:<phone> that redis.get hands back, 0 for no key
ReadOtpRate(P) == IF otpRate[P].exp # 0 THEN otpRate[P].n ELSE 0

\* POST /send-otp, lines 24-78: the validation of the body, the otp_rate and
\* ip_otp checks and the lookup of the user (ip_otp:<ip> stays far below its
\* limit of 100 and is left out)
sendOtp_check(p) ==
  /\ TakesRequest(p)
  /\ LET P == req.phoneNumber
         recentRequests == ReadOtpRate(P)
         answer ==
           IF P = "" THEN Respond(400, "Valid 10-digit Indian mobile number required")
           ELSE IF recentRequests >= 3
             THEN Respond(429, "Too many OTP requests. Please try again in 15 minutes")
           ELSE PhoneUserCheck(P, TRUE)
     IN handler' = [handler EXCEPT ![p] =
          [NoHandler EXCEPT !.route = "send-otp", !.phoneNumber = P,
                            !.recentRequests = recentRequests, !.res = answer,
                            !.pc = IF answer.status = 0 THEN "store" ELSE "idle"]]
  /\ UNCHANGED <<otpRate, account, evaluated>>
  /\ UNCHANGED <<otpVars, mwVars>>

\* POST /resend-otp, lines 182-206: the validation of the body and the lookup of
\* the user; otp_rate:<phone> is not read
resendOtp_check(p) ==
  /\ TakesRequest(p)
  /\ LET P == req.phoneNumber
         answer == IF P = "" THEN Respond(400, "Valid phone number required")
                   ELSE PhoneUserCheck(P, FALSE)
     IN handler' = [handler EXCEPT ![p] =
          [NoHandler EXCEPT !.route = "resend-otp", !.phoneNumber = P, !.res = answer,
                            !.pc = IF answer.status = 0 THEN "store" ELSE "idle"]]
  /\ UNCHANGED <<otpRate, account, evaluated>>
  /\ UNCHANGED <<otpVars, mwVars>>

\* lines 81-82 and 209-210: generateOTP() and the call of storeOTP, up to its
\* first await
route_storeOTP(p, otp) ==
  /\ handler[p].pc = "store"
  /\ storeOTP_set_otp(p, handler[p].phoneNumber, otp)
  /\ handler' = [handler EXCEPT ![p].pc = "storing", ![p].otp = otp]
  /\ UNCHANGED <<otpRate, served, account, evaluated>>

\* POST /send-otp, lines 84-101: storeOTP has returned; redis.incr and
\* redis.expire of otp_rate:<phone> (15 minutes), then the answer
sendOtp_incr(p) ==
  /\ handler[p].pc = "storing"
  /\ handler[p].route = "send-otp"
  /\ Return(p)
  /\ otpRate' = [otpRate EXCEPT ![handler[p].phoneNumber] =
                   [n |-> ReadOtpRate(handler[p].phoneNumber) + 1,
                    exp |-> now + 15 * 60 * 1000]]
  /\ handler' = [handler EXCEPT ![p].pc = "idle", ![p].res = Respond(200, "")]
  /\ UNCHANGED <<served, account, evaluated>>

\* POST /resend-otp, lines 212-220: storeOTP has returned; the answer
resendOtp_respond(p) ==
  /\ handler[p].pc = "storing"
  /\ handler[p].route = "resend-otp"
  /\ Return(p)
  /\ handler' = [handler EXCEPT ![p].pc = "idle", ![p].res = Respond(200, "")]
  /\ UNCHANGED <<otpRate, served, account, evaluated>>

\* POST /verify-otp, lines 111-124: the validation of the body and the call of
\* verifyOTP, up to its first await
verifyOtp_begin(p, otp) ==
  /\ TakesRequest(p)
  /\ req.phoneNumber # ""
  /\ verifyOTP_get_otp(p, req.phoneNumber, otp)
  /\ handler' = [handler EXCEPT ![p] =
        [NoHandler EXCEPT !.route = "verify-otp", !.phoneNumber = req.phoneNumber,
                          !.otp = otp, !.pc = "verifying"]]
  /\ UNCHANGED <<otpRate, account, evaluated>>

\* POST /verify-otp, lines 125-172: verifyOTP has returned; its error is answered
\* with 400, its success with the lookup of the user and the token
verifyOtp_respond(p) ==
  /\ handler[p].pc = "verifying"
  /\ LET otpResult == proc[p].result
         found == PhoneUserCheck(handler[p].phoneNumber, TRUE)
     IN handler' = [handler EXCEPT ![p].pc = "idle", ![p].res =
          IF ~otpResult.success THEN Respond(400, otpResult.error)
          ELSE IF found.status # 0 THEN found
          ELSE Respond(200, "")]
  /\ Return(p)
  /\ UNCHANGED <<otpRate, served, account, evaluated>>

\* ----------------------------------- routes/auth.js: POST /faculty-login
\* comparePassword(password, user.password_hash) for the one faculty account
Passwords == {"right", "wrong"}
comparePassword(password) == password = "right"

LOCK_MS == 30 * 60 * 1000    \* lockUntil.setMinutes(lockUntil.getMinutes() + 30)

\* lines 230-294: the validation of the body, the read of the users row, the
\* test of locked_until against the clock and the comparison of the password
\* (the account exists and is active; ip_login:<ip> stays far below its limit)
facultyLogin_read(p, password) ==
  /\ TakesRequest(p)
  /\ req.username # ""
  /\ LET user == account
         locked == user.locked_until # 0 /\ now < user.locked_until
     IN /\ handler' = [handler EXCEPT ![p] =
             [NoHandler EXCEPT !.route = "faculty-login", !.password = password,
                               !.user = user,
                               !.pc = IF locked THEN "idle" ELSE "update",
                               !.res = IF locked THEN Respond(423, "Account is locked")
                                       ELSE Respond(0, "")]]
        /\ evaluated' = IF ~locked /\ ~comparePassword(password)
                          THEN evaluated + 1 ELSE evaluated
  /\ UNCHANGED <<otpRate, account>>
  /\ UNCHANGED <<otpVars, mwVars>>

\* lines 296-342 and 356: the update of the users row and the answer, after a
\* wrong password (failed_attempts, locked_until from the third on) and after the
\* right one (failed_attempts 0, locked_until null)
facultyLogin_update(p) ==
  /\ handler[p].pc = "update"
  /\ handler[p].route = "faculty-login"
  /\ LET newFailedAttempts == handler[p].user.failed_attempts + 1
     IN IF ~comparePassword(handler[p].password)
          THEN /\ account' =
                    [failed_attempts |-> newFailedAttempts,
                     locked_until |-> IF newFailedAttempts >= 3 THEN now + LOCK_MS
                                      ELSE account.locked_until]
               /\ evaluated' = IF newFailedAttempts >= 3 THEN 0 ELSE evaluated
               /\ handler' = [handler EXCEPT ![p].pc = "idle", ![p].res =
                    IF newFailedAttempts >= 3
                      THEN Respond(423, "Account locked after 3 failed attempts. Try again in 30 minutes")
                      ELSE Respond(401, "Invalid credentials. "
                                          \o ToString(3 - newFailedAttempts)
                                          \o " attempts remaining")]
          ELSE /\ account' = [failed_attempts |-> 0, locked_until |-> 0]
               /\ evaluated' = 0
               /\ handler' = [handler EXCEPT ![p].pc = "idle", ![p].res = Respond(200, "")]
  /\ UNCHANGED <<otpRate, served>>
  /\ UNCHANGED <<otpVars, mwVars>>

\* the awaits inside storeOTP and verifyOTP while a route handler waits for them
route_otp_step(p) ==
  /\ handler[p].pc \in {"storing", "verifying"}
  /\ \/ storeOTP_set_attempts(p)
     \/ verifyOTP_get_attempts(p)
     \/ verifyOTP_set_attempts(p)
     \/ verifyOTP_del_otp(p)
     \/ verifyOTP_del_attempts(p)
  /\ UNCHANGED routeVars

\* a minute passes: redis drops the keys whose expiry has come
ElapseMs == CACHE_TTL
MaxElapse == 1      \* minutes passing in one behaviour

AgedBy(k, none, s) == IF k.live /\ k.ttl > s THEN [k EXCEPT !.ttl = @ - s] ELSE none

Elapse ==
  /\ now' = now + ElapseMs
  /\ rlRedis' = Without(rlRedis,
        {k \in DOMAIN rlRedis : rlRedis[k].exp # 0 /\ rlRedis[k].exp <= now + ElapseMs})
  /\ otpKey' = [P \in Phones |-> AgedBy(otpKey[P], NoOtp, ElapseMs \div 1000)]
  /\ attKey' = [P \in Phones |-> AgedBy(attKey[P], NoAtt, ElapseMs \div 1000)]
  /\ expired' = expired \cup
        {otpKey[P].id : P \in {Q \in Phones : otpKey[Q].live /\ ~otpKey'[Q].live}}
  /\ otpRate' = [P \in Phones |->
        IF otpRate[P].exp # 0 /\ otpRate[P].exp <= now + ElapseMs
          THEN [n |-> 0, exp |-> 0] ELSE otpRate[P]]
  /\ fuRedis' = Without(fuRedis,
        {k \in DOMAIN fuRedis : fuRedis[k].exp # 0 /\ fuRedis[k].exp <= now + ElapseMs})
  /\ UNCHANGED <<redisUp, rateLimitCache, req, res, nreqs, admitted>>
  /\ UNCHANGED <<fileUploadCache, users, dbUp, userCache, pcCache, redisClient, authVariant, uploaded>>
  /\ UNCHANGED <<proc, ncalls, issues, compared, succeeded, lastIssued>>
  /\ UNCHANGED <<handler, served, account, evaluated>>

Init ==
  /\ OtpInit
  /\ MwInit
  /\ PipeInit
  /\ RouteInit
  /\ redisClient = "text"
  /\ authVariant = "multiOrg"

\* the OTP routes behind app.use(rateLimiter): a client without token sends
\* requests whose body carries the phone number; the handlers of the requests
\* interleave at their awaits
MaxOtpReqs == 4     \* requests received in one behaviour

NextOtpRoutes ==
  \/ \E f \in Failing(2) :
        /\ nreqs < MaxOtpReqs
        /\ served = nreqs \/ req.stage = "done"
        /\ rateLimiter(NoToken, "9876543210", "", f)
  \/ \E p \in Procs : sendOtp_check(p)
  \/ \E p \in Procs : resendOtp_check(p)
  \/ \E p \in Procs : route_storeOTP(p, "123456")
  \/ \E p \in Procs : sendOtp_incr(p)
  \/ \E p \in Procs : resendOtp_respond(p)
  \/ \E p \in Procs, otp \in Codes : verifyOtp_begin(p, otp)
  \/ \E p \in Procs : verifyOtp_respond(p)
  \/ \E p \in Procs : route_otp_step(p)
  \/ now < MaxElapse * ElapseMs /\ Elapse
SpecOtpRoutes == Init /\ [][NextOtpRoutes]_vars

\* POST /faculty-login behind app.use(rateLimiter): requests for one account,
\* their handlers interleaving at the awaits
MaxLoginReqs == 5   \* requests received in one behaviour

NextLogin ==
  \/ \E f \in Failing(2) :
        /\ nreqs < MaxLoginReqs
        /\ served = nreqs \/ req.stage = "done"
        /\ rateLimiter(NoToken, "", "teacher1", f)
  \/ \E p \in Procs, password \in Passwords : facultyLogin_read(p, password)
  \/ \E p \in Procs : facultyLogin_update(p)
SpecLogin == Init /\ [][NextLogin]_vars

\* requests served concurrently: the calls interleave at every await
NextOtp == ((\E p \in Procs : OtpStep(p)) \/ ExpireTick) /\ UNCHANGED routeVars
SpecOtp == Init /\ [][NextOtp]_vars

\* requests served one after the other: a call starts when no other call is running
OthersIdle(p) == \A q \in Procs \ {p} : proc[q].pc = "idle"
OtpStepSeq(p) ==
  \/ \E P \in Phones, c \in Codes : OthersIdle(p) /\ storeOTP_set_otp(p, P, c)
  \/ storeOTP_set_attempts(p)
  \/ \E P \in Phones, x \in Codes : OthersIdle(p) /\ verifyOTP_get_otp(p, P, x)
  \/ verifyOTP_get_attempts(p)
  \/ verifyOTP_set_attempts(p)
  \/ verifyOTP_del_otp(p)
  \/ verifyOTP_del_attempts(p)
  \/ Return(p)
NextOtpSeq == ((\E p \in Procs : OtpStepSeq(p)) \/ ExpireTick) /\ UNCHANGED routeVars
SpecOtpSeq == Init /\ [][NextOtpSeq]_vars

\* the rate limiter alone, the shared cache reachable
NextRl ==
  \/ \E t \in Tokens, ph \in PhoneNumbers, un \in Usernames, f \in Failing(2) :
        nreqs < MaxReqs /\ rateLimiter(t, ph, un, f)
  \/ cleanRateLimitCache
  \/ Tick
SpecRl == Init /\ [][NextRl]_vars

\* the whole pipeline, whichever redis client and authenticateToken are in force;
\* redis and the users table may become unreachable, rows may be (de)activated
InitMw ==
  /\ OtpInit
  /\ MwInit
  /\ PipeInit
  /\ RouteInit
  /\ redisClient \in {"text", "parsed"}
  /\ authVariant \in {"multiOrg", "singleOrg"}

NextMw ==
  \/ \E t \in Tokens, ph \in PhoneNumbers, f \in Failing(2) :
        nreqs < MaxPipeReqs /\ rateLimiter(t, ph, "", f)
  \/ \E f \in Failing(2) : authenticateToken(f)
  \/ \E f \in Failing(2) : authenticateToken_single(f)
  \/ \E files \in FileLists, f \in Failing(2) : fileUploadRateLimiter(files, f)
  \/ \E orgId \in 0..2, child \in ChildIds, f \in Failing(2) :
        parentChildValidator(orgId, child, f)
  \/ RedisOutage
  \/ DbOutage
  \/ \E b \in BOOLEAN : setActive("u1", b)
SpecMw == InitMw /\ [][NextMw]_vars

\* the tokens a client may send, as the bearer token of a request to any route
\* behind app.use(rateLimiter) and authenticateToken: the tokens generateToken
\* makes for the id pairs, tokens signed with another secret or carrying another
\* header algorithm, and a string that is not a token
IdPairs == [userId : {"", "u1", "cA"}, orgId : {"", "o1"}]
BearerTokens ==
  {NoToken}
    \cup {generateToken(p) : p \in IdPairs}
    \cup {[kind |-> "jwt", secret |-> s, alg |-> a,
           payload |-> [userId |-> "u1", orgId |-> "o1"]] :
            s \in {JWT_SECRET, "other"}, a \in {"HS256", "HS512", "none"}}
    \cup {[kind |-> "malformed", secret |-> "", alg |-> "", payload |-> NoPayload]}

MaxTokenReqs == 4   \* requests received in one behaviour

NextToken ==
  \/ \E t \in BearerTokens, ph \in PhoneNumbers, un \in Usernames, f \in Failing(2) :
        nreqs < MaxTokenReqs /\ rateLimiter(t, ph, un, f)
  \/ \E f \in Failing(2) : authenticateToken(f)
  \/ \E f \in Failing(2) : authenticateToken_single(f)
SpecToken == InitMw /\ [][NextToken]_vars

\* the routes that serve a parent, behind app.use(rateLimiter) and
\* authenticateToken, with either parentChildValidator; the users table may become
\* unreachable, rows may be (de)activated
GoodToken == generateToken([userId |-> "u1", orgId |-> "o1"])
\* req.query.childId ("" if the query has none)
QueryChildIds == {"", "not-a-uuid", "cA", "cB", "cC"}

NextParent ==
  \/ \E f \in Failing(2) : nreqs < MaxPipeReqs /\ rateLimiter(GoodToken, "", "", f)
  \/ \E f \in Failing(2) : authenticateToken(f)
  \/ \E f \in Failing(2) : authenticateToken_single(f)
  \/ \E orgId \in 0..2, child \in ChildIds, f \in Failing(2) :
        parentChildValidator(orgId, child, f)
  \/ \E child \in ChildIds : parentChildValidator_uncached(child)
  \/ getMessages
  \/ \E childId \in QueryChildIds : getGrades(childId)
  \/ \E childId \in QueryChildIds : getFile(childId)
  \/ DbOutage
  \/ \E u \in {"u1", "cA"}, b \in BOOLEAN : setActive(u, b)
SpecParent == InitMw /\ [][NextParent]_vars

\* POST /:groupId of part_006 lines 154-159 behind app.use(rateLimiter): requests of
\* one user with a valid token; the limiter runs before multer, so req.files is
\* undefined when it runs, whatever files the body carries
Bodies == {<<1, 1>>, <<600>>}
RouteFiles == {[defined |-> FALSE, sizes |-> b] : b \in Bodies}

\* the deployment with the single-row authenticateToken and a client returning text
InitUpload ==
  /\ OtpInit
  /\ MwInit
  /\ PipeInit
  /\ RouteInit
  /\ redisClient = "text"
  /\ authVariant = "singleOrg"

NextUpload ==
  \/ \E f \in Failing(2) : nreqs < MaxUploads /\ rateLimiter(GoodToken, "", "", f)
  \/ \E f \in Failing(2) : authenticateToken_single(f)
  \/ \E files \in RouteFiles, f \in Failing(2) : fileUploadRateLimiter(files, f)
  \/ upload_array
  \/ cleanFileUploadCache
  \/ Tick
SpecUpload == InitUpload /\ [][NextUpload]_vars

\* the same route over the minutes of an hour: one client that uploads, without
\* any file, once every minute, the in-process caches running out in between
MaxMinutes == 20        \* minutes passing in one behaviour
MaxHourUploads == 22    \* requests received in one behaviour

NextUploadHour ==
  \/ \E f \in Failing(2) :
        /\ nreqs < MaxHourUploads
        /\ nreqs * ElapseMs <= now
        /\ rateLimiter(GoodToken, "", "", f)
  \/ \E f \in Failing(2) : authenticateToken_single(f)
  \/ \E f \in Failing(2) : fileUploadRateLimiter(NoFiles, f)
  \/ upload_array
  \/ now < MaxMinutes * ElapseMs /\ now < nreqs * ElapseMs /\ Elapse
SpecUploadHour == InitUpload /\ [][NextUploadHour]_vars

\* the cached parentChildValidator while the users table changes: children are
\* linked to a parent and rows are (de)activated between requests
MaxLinkReqs == 3    \* requests received in one behaviour

NextLink ==
  \/ \E f \in Failing(2) : nreqs < MaxLinkReqs /\ rateLimiter(GoodToken, "", "", f)
  \/ \E f \in Failing(2) : authenticateToken_single(f)
  \/ \E orgId \in 0..2, child \in ChildIds, f \in Failing(2) :
        parentChildValidator(orgId, child, f)
  \/ \E u \in {"cA", "cC"}, b \in BOOLEAN : setActive(u, b)
  \/ \E u \in {"cA", "cC"}, parentId \in {"", "u1"} : linkChild(u, parentId)
SpecLink == InitUpload /\ [][NextLink]_vars

\* ------------------------------------------------------------------ claims
VerifyReturned(p) == proc[p].pc = "ret" /\ proc[p].op = "verifyOTP"
VerifyReturns(p) == proc[p].op = "verifyOTP" /\ proc[p].pc # "ret" /\ proc'[p].pc = "ret"

\* C1: with requests served one after the other, a verifyOTP(P, c) that finds the
\* code c stored for P returns {success: true} and leaves neither key; and once the
\* last issued code of P has been verified successfully, every further verifyOTP
\* for P (no storeOTP in between) returns 'OTP expired or not found'.
C1_VerifyThenNotFound ==
  \A p \in Procs :
    VerifyReturned(p) =>
      LET P == proc[p].phone
          last == lastIssued[P]
      IN /\ (proc[p].storedOTP.live /\ proc[p].storedOTP.val = proc[p].inp)
              => /\ proc[p].result = Success
                 /\ ~otpKey[P].live
                 /\ ~attKey[P].live
         /\ (last.id # 0 /\ succeeded[last.id] >= 1)
              => \/ proc[p].result = Failure(NotFoundMsg)
                 \/ /\ proc[p].result = Success
                    /\ proc[p].storedOTP.id = last.id
                    /\ succeeded[last.id] = 1

\* C1 witness: a verifyOTP with the right code has returned not-found because the
\* code was consumed by an earlier successful verifyOTP.
C1_Witness ==
  \E p \in Procs :
    /\ VerifyReturned(p)
    /\ proc[p].result = Failure(NotFoundMsg)
    /\ lastIssued[proc[p].phone].id # 0
    /\ lastIssued[proc[p].phone].code = proc[p].inp
    /\ succeeded[lastIssued[proc[p].phone].id] = 1
    /\ lastIssued[proc[p].phone].id \notin expired

\* C2: with requests served one after the other and the code not expired, every
\* verifyOTP with a wrong code fails; the third one reports 'OTP invalidated due to
\* too many wrong attempts' and leaves neither the otp key nor the attempts key;
\* every verifyOTP after it (the right code included) returns not-found.
C2_ThreeWrongThenDestroyed ==
  \A p \in Procs :
    VerifyReturned(p) =>
      LET P == proc[p].phone
          id == lastIssued[P].id
      IN /\ (proc[p].storedOTP.live /\ proc[p].storedOTP.val # proc[p].inp)
              => ~proc[p].result.success
         /\ (id # 0 /\ id \notin expired /\ succeeded[id] = 0 /\ compared[id] >= MAX_ATTEMPTS)
              => /\ compared[id] = MAX_ATTEMPTS
                 /\ IF proc[p].storedOTP.live
                      THEN /\ proc[p].result = Failure(InvalidatedMsg)
                           /\ ~otpKey[P].live
                           /\ ~attKey[P].live
                      ELSE proc[p].result = Failure(NotFoundMsg)

\* C2 witness: after three wrong codes the right code has been answered not-found.
C2_Witness ==
  \E p \in Procs :
    LET last == lastIssued[proc[p].phone]
    IN /\ VerifyReturned(p)
       /\ last.id # 0
       /\ last.id \notin expired
       /\ compared[last.id] = MAX_ATTEMPTS
       /\ succeeded[last.id] = 0
       /\ proc[p].inp = last.code
       /\ proc[p].result = Failure(NotFoundMsg)

\* C3: at most 3 candidate codes are compared with any one issued OTP value.
C3_AtMostThreeCompared == \A id \in Ids : compared[id] <= MAX_ATTEMPTS

\* C4: for one issued OTP value at most one verifyOTP call returns success.
C4_SingleUse == \A id \in Ids : succeeded[id] <= 1

\* C5: a verifyOTP call with a wrong code for a live, unexpired OTP returns with
\* getRemainingAttempts(P) exactly 1 smaller than when the call began, and
\* getRemainingAttempts(P) is always within [0, 3].
C5_RemainingDecreasesByOne ==
  /\ [][\A p \in Procs :
          (/\ VerifyReturns(p)
           /\ proc[p].storedOTP.live
           /\ proc[p].storedOTP.val # proc[p].inp
           /\ proc[p].storedOTP.id \notin expired')
          => (getRemainingAttempts(proc[p].phone))' = proc[p].remBefore - 1]_vars
  /\ [](\A P \in Phones : getRemainingAttempts(P) \in 0..MAX_ATTEMPTS)

\* C6: once a storeOTP(P, c2) that replaced a live code c1 has returned (and no
\* other storeOTP is running), a verifyOTP for P that returns success was called
\* with c2.
C6_OnlyNewCodeVerifies ==
  [][\A p \in Procs :
       (/\ VerifyReturns(p)
        /\ proc'[p].result.success
        /\ lastIssued[proc[p].phone].returned
        /\ lastIssued[proc[p].phone].over # ""
        /\ \A q \in Procs : proc[q].pc # "store_att")
       => proc[p].inp = lastIssued[proc[p].phone].code]_vars

RateLimited == nreqs' = nreqs + 1   \* a rateLimiter step

\* C7: for every bucket and window the rate limiter lets at most max requests
\* pass (user 500, phone 3, username 5, device 50), and a rejection is a 429
\* carrying the bucket's type.
C7_AtMostMaxAdmitted ==
  /\ \A k \in DOMAIN admitted : admitted[k] <= getLimits(k[1]).max
  /\ res.status = 429 => res.type = req.identifier.type

\* C8: the retryAfter of a 429 is the number of seconds from now to the end of the
\* current window (rounded down or up).
C8_RetryAfterIsRemainingWindow ==
  [][(RateLimited /\ res'.status = 429)
       => LET windowMs == getLimits(req'.identifier).windowMs
              windowEnd == ((now \div windowMs) + 1) * windowMs
              left == windowEnd - now
          IN res'.retryAfter \in (left \div 1000)..Ceil(left, 1000)]_vars

\* C9: the request is classified by strict precedence: user iff a bearer token is
\* present and verifies with a userId; else phone iff the body has a phoneNumber;
\* else username iff the body has a username; else device. Only the bucket so
\* chosen is counted.
C9_Precedence ==
  /\ [](req.stage # "none" =>
          LET v == verifyToken(req.token)
              asUser == req.token # NoToken /\ v.ok /\ v.decoded.userId # ""
              id == req.identifier
          IN /\ id.type \in {"user", "phone", "username", "device"}
             /\ (id.type = "user") <=> asUser
             /\ (id.type = "phone") <=> (~asUser /\ req.phoneNumber # "")
             /\ (id.type = "username")
                  <=> (~asUser /\ req.phoneNumber = "" /\ req.username # "")
             /\ (id.type = "device")
                  <=> (~asUser /\ req.phoneNumber = "" /\ req.username = "")
             /\ id.type = "user" => id.id = v.decoded.userId
             /\ id.type = "phone" => id.id = req.phoneNumber
             /\ id.type = "username" => id.id = req.username)
  /\ [][RateLimited =>
          /\ \A k \in DOMAIN admitted' :
                (k \notin DOMAIN admitted \/ admitted'[k] # admitted[k])
                   => k[1] = req'.identifier
          /\ \A k \in DOMAIN rlRedis' :
                (k \notin DOMAIN rlRedis \/ rlRedis'[k] # rlRedis[k])
                   => k[1] = req'.identifier
          /\ \A k \in DOMAIN rateLimitCache' :
                (k \notin DOMAIN rateLimitCache \/ rateLimitCache'[k] # rateLimitCache[k])
                   => k[1] = req'.identifier]_vars

\* C9 witness: a request with a valid token and a phoneNumber was counted as user.
C9_Witness ==
  /\ req.stage = "limited"
  /\ verifyToken(req.token).ok
  /\ req.phoneNumber # ""
  /\ req.username # ""
  /\ req.identifier = [type |-> "user", id |-> "u1"]
  /\ \E k \in DOMAIN admitted : k[1] = req.identifier

\* the steps of the same request by the middleware after the rate limiter
AuthStep == ~RateLimited /\ req.stage = "limited" /\ req'.stage # "limited"
UploadStep ==
  ~RateLimited /\ req.stage = "authed" /\ (req'.stage = "uploading" \/ res'.status = 429)
ValidatorStep ==
  ~RateLimited /\ req.stage = "authed" /\ req'.stage # "authed" /\ ~UploadStep

\* the active children of a parent in an organization, as the users table has them
ChildrenOf(parentId, orgId) ==
  {u \in DOMAIN users : /\ users[u].parent_id = parentId
                        /\ users[u].org_id = orgId
                        /\ users[u].is_active}

\* C10: a redis command that throws while a request is processed never by itself
\* rejects the request: rateLimiter and fileUploadRateLimiter call next();
\* authenticateToken and the caching parentChildValidator go on to the users table
\* and answer as the table says (next() for an active user resp. an own child, the
\* table's own rejection otherwise).
C10_CacheFailureNeverRejects ==
  [][/\ (RateLimited /\ req'.redisFailed)
          => (res'.status = 0 /\ req'.stage = "limited")
     /\ (UploadStep /\ req'.redisFailed)
          => (res'.status = 0 /\ req'.stage = "uploading")
     /\ (AuthStep /\ req'.redisFailed)
          => LET id == Decoded.decoded.userId
                 active == dbUp /\ id \in DOMAIN users /\ users[id].is_active
             IN /\ req'.dbQueried
                /\ IF active
                     THEN /\ req'.stage = "authed"
                          /\ res'.status = 0
                          /\ req'.user = [id |-> id, role |-> users[id].role,
                                          is_active |-> TRUE]
                     ELSE res' = Unauthorized("Invalid or expired token")
     /\ (ValidatorStep /\ req'.redisFailed)
          => LET childId == req'.childId.str
                 orgId == req'.orgId
             IN /\ req'.dbQueried
                /\ IF ~dbUp \/ orgId = 0
                     THEN res' = Answer(500, "Service temporarily unavailable")
                   ELSE IF childId \in ChildrenOf(req.user.id, orgId)
                     THEN /\ req'.stage = "validated"
                          /\ res'.status = 0
                          /\ req'.validatedChild = [childId |-> childId, orgId |-> orgId]
                     ELSE res' = Answer(403, "Access denied")
    ]_vars

\* C10 witness: a request went through rateLimiter, authenticateToken and the
\* validator while redis commands threw in each of them (nothing was counted, nothing
\* was cached), and was let through on what the users table says.
C10_Witness ==
  /\ req.stage = "validated"
  /\ req.redisFailed
  /\ req.dbQueried
  /\ ~redisUp
  /\ rlRedis = <<>>
  /\ userCache = <<>>
  /\ pcCache = <<>>

\* the first dimension, in the order requests, files, size, in which the counters
\* exceed the limits ("" if none does)
FirstExceeded(counts, limits) ==
  IF counts.requests > limits.max THEN "file_upload_requests"
  ELSE IF counts.files > limits.maxFiles THEN "file_upload_files"
  ELSE IF counts.size > limits.maxTotalSize THEN "file_upload_size"
  ELSE ""

\* C11: the requests fileUploadRateLimiter lets pass in one window of one bucket
\* stay within the three quotas (request count, cumulative file count, cumulative
\* size), and a 429 carries the type of the first exceeded dimension in the order
\* file_upload_requests, file_upload_files, file_upload_size.
C11_AllQuotasAndOrder ==
  /\ [](\A k \in DOMAIN uploaded :
          FirstExceeded(uploaded[k], getFileUploadLimits(k[1])) = "")
  /\ [][(UploadStep /\ res'.status = 429)
          => res'.type = FirstExceeded(req'.seen,
                            getFileUploadLimits(getFileUploadIdentifier(req.token)))]_vars

\* C12: on POST /:groupId a request whose files total more than 500 MiB is answered
\* 429 with type file_upload_size by fileUploadRateLimiter (and goes no further).
C12_OversizeUploadRejected ==
  [][(UploadStep /\ Sum(req'.files.sizes) > 500)
       => /\ res'.status = 429
          /\ res'.type = "file_upload_size"
          /\ req'.stage = "done"]_vars

\* the request got past authenticateToken
PastAuth == req.stage \in {"authed", "uploading", "parsed", "validated"}

\* C13: authenticateToken sets req.user and calls next() only for a request whose
\* bearer token verifyToken accepts (verified by getIdentifier in the rate limiter,
\* with tokenVerified and decodedToken left on req, or by authenticateToken
\* itself); a request without token or with a token that does not verify is
\* answered 401 by authenticateToken and goes no further.
C13_OnlyVerifiedTokens ==
  /\ [](PastAuth =>
          /\ req.token # NoToken
          /\ verifyToken(req.token).ok
          /\ req.user.id = verifyToken(req.token).decoded.userId
          /\ req.tokenVerified = "true" => req.decodedToken = verifyToken(req.token).decoded)
  /\ [][(AuthStep /\ (req.token = NoToken \/ ~verifyToken(req.token).ok))
          => /\ res'.status = 401
             /\ req'.stage = "done"
             /\ req'.user = NoUser]_vars

\* C13 witness: a request with a token signed with another secret was answered 401
\* 'Invalid token' by authenticateToken.
C13_Witness ==
  /\ req.stage = "done"
  /\ req.token.kind = "jwt"
  /\ ~verifyToken(req.token).ok
  /\ req.tokenVerified = "false"
  /\ res = Unauthorized("Invalid token")

\* the Principal authenticateToken builds from the row of an active user
PrincipalOf(id) == [id |-> id, role |-> users[id].role, is_active |-> TRUE]

\* C14: once authenticateToken has written the Principal of S to the cache, a later
\* authenticateToken call with a valid token for S (carrying an orgId), S active and
\* no redis command failing, succeeds with the same Principal without querying the
\* users table.
C14_CachedPrincipalServed ==
  [][(/\ AuthStep
      /\ Decoded.status = "ok"
      /\ Decoded.decoded.orgId # ""
      /\ Decoded.decoded.userId \in DOMAIN userCache
      /\ Decoded.decoded.userId \in DOMAIN users
      /\ users[Decoded.decoded.userId].is_active
      /\ ~req'.redisFailed)
       => /\ req'.stage = "authed"
          /\ res'.status = 0
          /\ req'.user = PrincipalOf(Decoded.decoded.userId)
          /\ ~req'.dbQueried]_vars

\* C15: a request whose subject has no active row in the users table at the time
\* of the request is answered 401 by authenticateToken and goes no further, also
\* when a Principal of the subject is in the cache.
C15_InactiveAlwaysRejected ==
  [][(/\ AuthStep
      /\ Decoded.status = "ok"
      /\ ~(/\ Decoded.decoded.userId \in DOMAIN users
           /\ users[Decoded.decoded.userId].is_active))
       => /\ res'.status = 401
          /\ req'.stage = "done"]_vars

\* C16: authenticateToken answers a request that carries a token the same way,
\* 401 with one error body, whether the token is invalid, the account does not
\* exist or the account is deactivated (the body it gives for an invalid token).
C16_UniformRejection ==
  [][(/\ AuthStep
      /\ req.token # NoToken
      /\ \/ Decoded.status = "throws"
         \/ /\ Decoded.status = "ok"
            /\ Decoded.decoded.userId # ""
            /\ ~(/\ Decoded.decoded.userId \in DOMAIN users
                 /\ users[Decoded.decoded.userId].is_active))
       => res' = Unauthorized("Invalid token")]_vars

\* a step of either parentChildValidator used as a route's middleware
PcvStep ==
  ~RateLimited /\ req.stage = "authed" /\ req'.validator # "" /\ req'.handler = ""

\* C17: when the query of the users table fails during authenticateToken or
\* parentChildValidator, the request is answered 500, next() is not called and
\* neither a principal nor a validatedChild is granted.
C17_StoreFailureIs500 ==
  [][ ((AuthStep \/ PcvStep) /\ req'.dbQueried /\ ~dbUp)
        => /\ res'.status = 500
           /\ req'.stage = "done"
           /\ req'.validatedChild = NoChild
           /\ (AuthStep => req'.user = NoUser) ]_vars

\* the users whose parent_id is the given principal, as the users table has them
Children(parentId) == {u \in DOMAIN users : users[u].parent_id = parentId}

\* C18: with the users table reachable, parentChildValidator lets a parent pass
\* with a childId that is one of their children, req.validatedChild being that
\* child and the child's organization; for a well-formed id of anyone else it
\* answers 403, sets no validatedChild and does not call next().
C18_ChildrenPassOthers403 ==
  [][ (PcvStep /\ dbUp /\ req'.childId.type = "string" /\ req'.childId.str \in Uuids)
        => LET childId == req'.childId.str
           IN IF childId \in Children(req.user.id)
                THEN /\ req'.stage = "validated"
                     /\ req'.validatedChild =
                          [childId |-> childId, orgId |-> users[childId].org_id]
                ELSE /\ res'.status = 403
                     /\ req'.stage = "done"
                     /\ req'.validatedChild = NoChild ]_vars

\* C19: parentChildValidator answers 400 to a childId that is missing, empty or
\* not a well-formed identifier, before it reads the cache or the users table.
C19_MalformedChildIs400 ==
  [][ (PcvStep /\ (req'.childId.type # "string" \/ req'.childId.str \notin Uuids))
        => /\ res'.status = 400
           /\ req'.stage = "done"
           /\ ~req'.dbQueried
           /\ pcCache' = pcCache ]_vars

\* C20: when a route handler serves a parent, a childId given with the request
\* was accepted by the parent-child check of this request before the handler ran
\* its queries, and a user id other than the parent's own that the queries are
\* scoped to is that accepted child, whose parent_id is the parent's id.
C20_ParentReadsOnlyOwnChild ==
  (req.stage = "handled" /\ req.user.role = "parent")
    => /\ (req.childId.str # "" => req.validatedChild # NoChild)
       /\ (req.target # req.user.id
             => /\ req.validatedChild.childId = req.target
                /\ req.target \in Children(req.user.id))

\* a bearer token that verifyToken must not accept: not made by generateToken
BadToken(t) == t # NoToken /\ \A p \in IdPairs : t # generateToken(p)

C22_CounterLivesWithCode ==
  (\A p \in Procs : proc[p].pc = "idle")
    => \A P \in Phones : attKey[P].live <=> otpKey[P].live


\* C23: the shared counter of a bucket and window is never smaller than the
\* number of requests the rate limiter admitted for it: every admitted request
\* was written through to the shared cache.
C23_WriteThrough ==
  \A k \in DOMAIN admitted :
     k \in DOMAIN rlRedis => rlRedis[k].n >= admitted[k]


\* the bucket of a request that carries no token
Downgraded(phoneNumber, username) ==
  IF phoneNumber # "" THEN [type |-> "phone", id |-> phoneNumber]
  ELSE IF username # "" THEN [type |-> "username", id |-> username]
  ELSE [type |-> "device", id |-> DeviceId]

\* C24: a request without bearer token, or with one that fails verification, is
\* put by the rate limiter into the phone, username or device bucket its body
\* gives, and is rejected only when that bucket is full; after a failed
\* verification req.tokenVerified is false and req.decodedToken unset, and
\* authenticateToken verifies the token itself.
C24_FailedTokenDowngrades ==
  /\ [][ (RateLimited /\ ~verifyToken(req'.token).ok)
           => LET identifier == Downgraded(req'.phoneNumber, req'.username)
                  limits == getLimits(identifier)
                  key == <<identifier, now \div limits.windowMs>>
              IN /\ req'.identifier = identifier
                 /\ req'.tokenVerified = IF req'.token = NoToken THEN "undefined" ELSE "false"
                 /\ req'.decodedToken = NoPayload
                 /\ res'.status \in {0, 429}
                 /\ res'.status = 429
                      => \/ key \in DOMAIN rateLimitCache
                              /\ rateLimitCache[key].count >= limits.max
                         \/ key \in DOMAIN rlRedis' /\ rlRedis'[key].n > limits.max ]_vars
  /\ [][ (AuthStep /\ req.tokenVerified # "true")
           => IF req.token = NoToken THEN res' = Unauthorized("Access token required")
              ELSE IF ~verifyToken(req.token).ok THEN res' = Unauthorized("Invalid token")
              ELSE res'.status = 0 => req'.user.id = req.token.payload.userId ]_vars

\* a token signed with another secret was put into the username bucket, flagged
\* unverified, and then refused by authenticateToken
C24_Witness ==
  /\ req.token.kind = "jwt" /\ req.token.secret = "other" /\ req.token.alg = "HS256"
  /\ req.identifier = [type |-> "username", id |-> "teacher1"]
  /\ req.tokenVerified = "false"
  /\ req.stage = "done"
  /\ res = Unauthorized("Invalid token")


\* C25: parentChildValidator lets a request pass only for a childId whose users
\* row is active, has the principal as parent and is in the principal's
\* organization.
C25_OnlyActiveChildOfSameOrg ==
  [][ (PcvStep /\ req'.stage = "validated")
        => LET childId == req'.childId.str
           IN /\ childId \in DOMAIN users
              /\ users[childId].is_active
              /\ users[childId].parent_id = req.user.id
              /\ users[childId].org_id = users[req.user.id].org_id ]_vars


\* C26: with the cache and the users table reachable, the cached
\* parentChildValidator, looking in the principal's organization, lets a request
\* pass whenever the users table holds childId as an active user of that
\* organization whose parent is the principal.
C26_CachedValidatorAgreesWithStore ==
  [][ (PcvStep /\ req'.validator = "cached" /\ dbUp /\ ~req'.redisFailed
         /\ req'.orgId = users[req.user.id].org_id
         /\ req'.childId.str \in ChildrenOf(req.user.id, req'.orgId))
        => /\ req'.stage = "validated"
           /\ req'.validatedChild = [childId |-> req'.childId.str, orgId |-> req'.orgId] ]_vars


\* C27: a client that was sent one OTP for a phone number and has since made
\* only wrong verifications, fewer than three, while the OTP is alive, is not
\* answered 429 by the rate limiter on its next request: the request reaches
\* the OTP routes.
C27_ThreeWrongCodesReachVerify ==
  [][ (/\ RateLimited
       /\ \A p \in Procs : handler[p].pc = "idle"
       /\ \E P \in Phones :
            /\ req'.phoneNumber = P
            /\ issues = 1
            /\ otpKey[P].live /\ attKey[P].live
            /\ attKey[P].val < MAX_ATTEMPTS
            /\ nreqs = 1 + attKey[P].val)
        => res'.status # 429 ]_vars


\* C28: storeOTP is called at most three times for one phone number within 15
\* minutes (the behaviours here span at most MaxElapse minutes), /send-otp and
\* /resend-otp together.
C28_AtMostThreeIssued ==
  now < 15 * 60 * 1000 => issues <= 3


\* C29: an upload that fileUploadRateLimiter answers with 429 leaves the
\* counters of its bucket as they were, in the in-process cache and in the
\* shared cache.
C29_RejectedUploadCountsNothing ==
  [][ (UploadStep /\ res'.status = 429)
        => /\ fileUploadCache' = fileUploadCache
           /\ fuRedis' = fuRedis ]_vars


\* a /faculty-login handler answers
LoginAnswers(p) ==
  /\ handler'[p].route = "faculty-login"
  /\ handler[p].pc \in {"idle", "update"} /\ handler'[p].pc = "idle"
  /\ handler'[p] # handler[p]

\* C30: at most three wrong passwords are compared before the account is locked;
\* while locked_until is in the future every login is answered 423, one with the
\* right password too; a successful login leaves failed_attempts 0 and
\* locked_until null.
C30_Lockout ==
  /\ [](evaluated <= 3)
  /\ [][ \A p \in Procs :
           (LoginAnswers(p) /\ account.locked_until # 0 /\ now < account.locked_until)
             => handler'[p].res.status = 423 ]_vars
  /\ [][ \A p \in Procs :
           (LoginAnswers(p) /\ handler'[p].res.status = 200)
             => account' = [failed_attempts |-> 0, locked_until |-> 0] ]_vars


====
